---------------------------- MODULE Spec2Model ----------------------------
(***************************************************************************)
(* Live-state reconciliation of the crowd-management dashboard:            *)
(*   - Dashboard.tsx: loadDashboardData (a batch of four analytics         *)
(*     queries, each raced against a 30 s timer, settled together and      *)
(*     merged into the component state), the live-occupancy handler and    *)
(*     the 2 s grace timer for a polled occupancy of 0;                    *)
(*   - Dashboard.tsx: the socket effect (alert buffer, alerts panel) and   *)
(*     its cleanup; the SocketService connection and its listeners;        *)
(*   - analytics.service.ts: retryWithBackoff, makeRequest and the         *)
(*     response interceptor of apiClient;                                  *)
(*   - AlertsPanel.tsx (site names of alerts), DemographicsChart (what is  *)
(*     drawn of a demographics response) and AuthService.logout.           *)
(* Spec      is the dashboard component (queries seen as promises).        *)
(* SpecRace  is the initial load with the losing callback of every race.   *)
(* SpecRetry is one analytics query from makeRequest to its settled        *)
(*           outcome, attempt by attempt, with time in milliseconds.       *)
(* SpecAlerts   is the alert handler with the panel open, up to MaxAlerts. *)
(* SpecPanel    is the panel opening and closing while events arrive.      *)
(* SpecTeardown is a batch, its grace timer and the stream over unmount.   *)
(* SpecLive     is the live handler over every shape of payload.           *)
(* SpecSession  is the answers to the authenticated requests of a session. *)
(* SpecOrder    is the live handler over the candidate fields of a payload.*)
(* SpecMetrics  is one batch over the shapes a response body can take.     *)
(* SpecSites    is the site name the alerts panel shows for an alert.      *)
(* SpecBatch    is the batches of a mounted dashboard with timers that     *)
(*              fire (weak fairness on every armed 30 s timer).            *)
(* SpecSocket   is the SocketService called in any order.                  *)
(***************************************************************************)
EXTENDS Integers, Sequences, FiniteSets, TLC

VARIABLES
    \* ---- Dashboard component (Dashboard.tsx) ----
    phase,                    \* "rendered" (first render done), "active" (effects ran),
                              \*   "unmounted" (effect cleanups ran)
    siteId,                   \* authService.getSiteId(): "site-1" or "" (none stored)
    loading,                  \* _loading
    error,                    \* error: a message or NoError
    failedCalls,              \* failedCalls: sequence of query names
    liveOccupancy,            \* liveOccupancy: JS number or Null
    liveOccupancyFromSocket,  \* liveOccupancyFromSocket: JS number or Null
    todayFootfall,            \* todayFootfall
    avgDwellTime,             \* avgDwellTime
    occupancyData,            \* occupancyData: sequence of {timestamp, occupancy}
    demographicsData,         \* demographicsData: the response or NullResponse
    call,                     \* per query: the analyticsService promise
    race,                     \* per query: the Promise.race of timeoutPromise
    timer,                    \* per query: the 30 s setTimeout of timeoutPromise
    awaiting,                 \* loadDashboardData is suspended at await Promise.allSettled
    graceTimers,              \* pending 2 s timers started for a polled occupancy of 0
    completedBy,              \* index of the race whose settlement completed the batch (0: none yet)
    nBatches,                 \* batches started so far
    lateCalls,                \* the dashboard callbacks that have run after the unmount
    \* ---- SocketService (socket.service) ----
    socketService,            \* [socket, others, alertHandlers, occupancyHandlers]
    \* ---- alerts (Dashboard.tsx) ----
    allAlerts,                \* allAlerts: sequence of alert events, newest first
    showAlertsPanel,          \* showAlertsPanel
    showAlertsPanelRef,       \* showAlertsPanelRef.current
    nAlerts,                  \* alert events the server has emitted so far
    payload,                  \* the live-occupancy payload the server is about to emit,
                              \*   NoPayload when none is chosen
    \* ---- session (authService, window.location) ----
    token,                    \* authService.getToken(): "jwt" or "null"
    location,                 \* the page the browser shows: "/dashboard" or "/login"
    requests,                 \* per authenticated request of the application: [st, error],
                              \*   st "idle", "pending", "ok" or "failed"
    sitesCache,               \* AlertsPanel's sitesCache: the name of every cached site id
    \* ---- one analytics query (analytics.service.ts) ----
    rpc,                      \* retryWithBackoff: "off", "attempt" (awaiting fn), "backoff",
                              \*   "returned", "thrown"
    maxRetries,               \* retryWithBackoff's maxRetries argument
    attempt,                  \* loop variable of retryWithBackoff
    calls,                    \* invocations of fn so far
    lastError,                \* lastError
    attemptLeft,              \* ms left of the axios timeout of the running attempt
    delayLeft,                \* ms left of the backoff setTimeout
    sinceFailure,             \* ms elapsed since the last attempt failed
    failures,                 \* the error of every failed attempt, in order
    gaps,                     \* for every attempt after the first, the ms between the
                              \*   failure before it and its start
    hardLeft,                 \* ms left of timeoutPromise's timer for this query
    hardTimer,                \* that timer: "off", "armed", "fired"
    thrown,                   \* the Error makeRequest rejected with, or NoFailure
    settled                   \* the query's outcome in Promise.allSettled

\* the component's own state
viewVars == <<phase, loading, error, failedCalls, liveOccupancy,
              liveOccupancyFromSocket, todayFootfall, avgDwellTime, occupancyData,
              demographicsData, call, race, timer, awaiting, graceTimers,
              completedBy, nBatches, lateCalls, socketService>>

dashVars == <<viewVars, siteId>>

alertVars == <<allAlerts, showAlertsPanel, showAlertsPanelRef, nAlerts>>

streamVars == <<alertVars, payload>>

sessionVars == <<token, location, requests, sitesCache>>

retryVars == <<rpc, maxRetries, attempt, calls, lastError, attemptLeft, delayLeft,
               sinceFailure, failures, gaps, hardLeft, hardTimer, thrown, settled>>

vars == <<dashVars, retryVars, streamVars, sessionVars>>

-----------------------------------------------------------------------------
(* Bounds of the model *)

\* batches (initial load and manual retries) started in one run
MaxBatches == 2

-----------------------------------------------------------------------------
(* JavaScript values: [k, n, s]; a number carries n, a string carries its *)
(* characters s, every other kind carries neither                         *)

Num(x) == [k |-> "number", n |-> x, s |-> <<>>]
Str(chars) == [k |-> "string", n |-> 0, s |-> chars]
NaN == [k |-> "NaN", n |-> 0, s |-> <<>>]
Infinity == [k |-> "Infinity", n |-> 0, s |-> <<>>]
NegInfinity == [k |-> "-Infinity", n |-> 0, s |-> <<>>]
Undefined == [k |-> "undefined", n |-> 0, s |-> <<>>]
Null == [k |-> "null", n |-> 0, s |-> <<>>]

\* typeof v === "number" && !isNaN(v) && v >= 0
IsValidNumber(v) == \/ v.k = "number" /\ v.n >= 0
                    \/ v.k = "Infinity"

Digits == <<"0", "1", "2", "3", "4", "5", "6", "7", "8", "9">>

IsDigit(c) == \E d \in 1..10 : Digits[d] = c

DigitValue(c) == (CHOOSE d \in 1..10 : Digits[d] = c) - 1

\* the value of the longest run of digits that starts chars, read after acc
RECURSIVE DigitRun(_, _)
DigitRun(chars, acc) ==
    IF chars # <<>> /\ IsDigit(Head(chars))
        THEN DigitRun(Tail(chars), 10 * acc + DigitValue(Head(chars)))
        ELSE acc

\* the characters of the literal parseFloat reads as an infinite number
InfinityLiteral == <<"I", "n", "f", "i", "n", "i", "t", "y">>

StartsWith(chars, prefix) ==
    /\ Len(chars) >= Len(prefix)
    /\ SubSeq(chars, 1, Len(prefix)) = prefix

\* parseFloat on an optional sign followed by decimal digits or by Infinity: the
\* number read from the longest numeric prefix, NaN when there is none
ParseFloat(chars) ==
    LET neg == chars # <<>> /\ Head(chars) = "-"
        body == IF neg THEN Tail(chars) ELSE chars
    IN  IF body # <<>> /\ IsDigit(Head(body))
            THEN Num(IF neg THEN 0 - DigitRun(body, 0) ELSE DigitRun(body, 0))
        ELSE IF StartsWith(body, InfinityLiteral)
            THEN IF neg THEN NegInfinity ELSE Infinity
        ELSE NaN

-----------------------------------------------------------------------------
(* Responses of the analytics API (types/api), every query's response in   *)
(* one record shape; isObject = FALSE is a body that is no object          *)

Bucket(utc, avg) == [utc |-> utc, avg |-> avg, male |-> Undefined, female |-> Undefined]

DemographicsBucket(utc, male, female) ==
    [utc |-> utc, avg |-> Undefined, male |-> male, female |-> female]

EmptyResponse ==
    [isObject |-> TRUE, avgDwellMinutes |-> Undefined, footfall |-> Undefined,
     current |-> Undefined, occupancy |-> Undefined, hasBuckets |-> FALSE,
     buckets |-> <<>>]

NullResponse == [EmptyResponse EXCEPT !.isObject = FALSE]

WithBuckets(bs) == [EmptyResponse EXCEPT !.hasBuckets = TRUE, !.buckets = bs]

\* apiCalls: the batch's queries, by index
ApiCalls == <<"Dwell Time", "Footfall", "Occupancy", "Demographics">>

QueryIdx == 1..4

DwellResponses ==
    { [EmptyResponse EXCEPT !.avgDwellMinutes = Num(5)] }

FootfallResponses ==
    { [EmptyResponse EXCEPT !.footfall = Num(120)] }

OccupancyResponses ==
    { WithBuckets(<<>>),
      WithBuckets(<<Bucket(Num(1000), Num(4)), Bucket(Num(2000), Num(0))>>),
      WithBuckets(<<Bucket(Num(1000), Num(9))>>),
      WithBuckets(<<Bucket(Undefined, Num(9))>>) }

DemographicsResponses ==
    { WithBuckets(<<DemographicsBucket(Num(1000), Num(3), Num(2))>>) }

Responses(i) ==
    CASE i = 1 -> DwellResponses
      [] i = 2 -> FootfallResponses
      [] i = 3 -> OccupancyResponses
      [] i = 4 -> DemographicsResponses

\* payloads of the live-occupancy stream events delivered to the handler
LiveEvent(occupancy, count) ==
    [kind |-> "object", occupancy |-> occupancy, count |-> count,
     current |-> Undefined, value |-> Undefined, num |-> Undefined]

LiveNumber(v) ==
    [kind |-> "number", occupancy |-> Undefined, count |-> Undefined,
     current |-> Undefined, value |-> Undefined, num |-> v]

LiveEvents ==
    { LiveEvent(Num(7), Undefined),
      LiveEvent(Undefined, Undefined),
      LiveNumber(Num(0)) }

\* no payload
NoPayload ==
    [kind |-> "none", occupancy |-> Undefined, count |-> Undefined,
     current |-> Undefined, value |-> Undefined, num |-> Undefined]

\* what a field of a payload can hold
FieldValues ==
    { Undefined, Null, NaN, Num(0), Num(42), Num(0 - 1),
      Str(<<"4", "2">>), Str(<<"-", "5">>), Str(<<"a", "b", "c">>), Str(InfinityLiteral) }

\* the payloads of the handler's cases: an object with occupancy and count, an
\* object with current or value alone, a bare number, a string
LivePayloads ==
    { LiveEvent(o, c) : o \in FieldValues, c \in FieldValues }
    \cup { [LiveEvent(Undefined, Undefined) EXCEPT !.current = v] : v \in FieldValues }
    \cup { [LiveEvent(Undefined, Undefined) EXCEPT !.value = v] : v \in FieldValues }
    \cup { LiveNumber(v) : v \in {Num(0), Num(42), Num(0 - 1), NaN} }
    \cup { [NoPayload EXCEPT !.kind = "string"] }

-----------------------------------------------------------------------------
(* Program constants of Dashboard.tsx *)

\* delay of the grace timer for a polled occupancy of 0
GraceMs == 2000
\* delay of timeoutPromise's timer
HardTimeoutMs == 30000
\* step of the dashboard's clock: half the grace window
TickMs == GraceMs \div 2

NoError == "null"
ErrSiteId == "Site ID is required. Please check your login response"
ErrAllFailed == "All API calls failed"
ErrException == "Invalid time value"

\* which of its three views the component renders for the error state
View(err) ==
    IF err = ErrSiteId THEN "siteIdRequired"
    ELSE IF err = ErrAllFailed THEN "connectionError"
    ELSE "dashboard"

\* loadDashboardData is memoised with no dependencies: the state it reads is the
\* state of the first render
ClosureLiveOccupancyFromSocket == Null

ClosureLiveOccupancy == Null

-----------------------------------------------------------------------------
(* Per-metric extraction of loadDashboardData *)

ExtractDwell(resp) ==
    IF IsValidNumber(resp.avgDwellMinutes) THEN resp.avgDwellMinutes ELSE Null

ExtractFootfall(resp) ==
    IF IsValidNumber(resp.footfall) THEN resp.footfall ELSE Null

\* occupancyValue
DeriveOccupancy(resp) ==
    IF IsValidNumber(resp.current) THEN resp.current
    ELSE IF IsValidNumber(resp.occupancy) THEN resp.occupancy
    ELSE IF resp.hasBuckets /\ Len(resp.buckets) > 0
        THEN LET lastBucket == resp.buckets[Len(resp.buckets)]
             IN  IF IsValidNumber(lastBucket.avg) THEN lastBucket.avg ELSE Null
    ELSE Null

\* OccupancyDecision without the grace timer: a polled 0 is shown at once
OccupancyDecisionNoGrace(occupancyValue, fromSocket, live) ==
    IF occupancyValue # Null /\ fromSocket = Null THEN "set"
    ELSE IF occupancyValue # Null /\ fromSocket # Null THEN "skip"
    ELSE IF fromSocket = Null /\ live = Null THEN "setNull"
    ELSE "skip"

\* what the batch does with occupancyValue: "set" it as liveOccupancy, start
\* the "grace" timer, set liveOccupancy to null ("setNull"), or "skip"
OccupancyDecision(occupancyValue, fromSocket, live) ==
    IF occupancyValue # Null /\ fromSocket = Null
        THEN IF occupancyValue = Num(0) THEN "grace" ELSE "set"
    ELSE IF occupancyValue # Null /\ fromSocket # Null THEN "skip"
    ELSE IF fromSocket = Null /\ live = Null THEN "setNull"
    ELSE "skip"

\* new Date(utc): the time value, NaN for an invalid date
DateTimeValue(utc) ==
    IF utc.k = "number" THEN utc
    ELSE IF utc.k = "null" THEN Num(0)
    ELSE IF utc.k = "string" THEN ParseFloat(utc.s)
    ELSE NaN

\* toISOString throws a RangeError on an invalid date
TransformThrows(resp) ==
    /\ resp.hasBuckets
    /\ \E b \in 1..Len(resp.buckets) : DateTimeValue(resp.buckets[b].utc).k # "number"

\* TransformBuckets for a series that grows with every batch
TransformBucketsAppended(resp) ==
    IF resp.hasBuckets
        THEN occupancyData \o
             [b \in 1..Len(resp.buckets) |->
                [timestamp |-> [iso |-> DateTimeValue(resp.buckets[b].utc).n],
                 occupancy |-> resp.buckets[b].avg]]
        ELSE occupancyData

\* transformedData; the ISO string of a date is kept as its time value
TransformBuckets(resp) ==
    IF resp.hasBuckets
        THEN [b \in 1..Len(resp.buckets) |->
                [timestamp |-> [iso |-> DateTimeValue(resp.buckets[b].utc).n],
                 occupancy |-> resp.buckets[b].avg]]
        ELSE <<>>

\* the handler's occupancyValue for a stream payload: one field of an object
\* payload, read as a number
Candidate(field) ==
    LET parsed == IF field.k = "string" THEN ParseFloat(field.s) ELSE field
    IN  IF IsValidNumber(parsed) THEN parsed ELSE Null

ExtractLive(event) ==
    IF event.kind = "object"
        THEN LET c1 == IF event.occupancy.k \notin {"undefined", "null"}
                          THEN Candidate(event.occupancy) ELSE Null
                 c2 == IF c1 = Null /\ event.count.k # "undefined"
                          THEN Candidate(event.count) ELSE c1
                 c3 == IF c2 = Null /\ event.current.k # "undefined"
                          THEN Candidate(event.current) ELSE c2
                 c4 == IF c3 = Null /\ event.value.k # "undefined"
                          THEN Candidate(event.value) ELSE c3
             IN  c4
    ELSE IF event.kind = "number"
        THEN IF IsValidNumber(event.num) THEN event.num ELSE Null
    ELSE Null

-----------------------------------------------------------------------------
(* The dashboard component *)

Pending == [st |-> "pending", value |-> NullResponse, reason |-> ""]
Idle == [st |-> "idle", value |-> NullResponse, reason |-> ""]
Fulfilled(resp) == [st |-> "fulfilled", value |-> resp, reason |-> ""]
Rejected(why) == [st |-> "rejected", value |-> NullResponse, reason |-> why]

\* the state that the completion of a batch writes
vmVars == <<loading, error, failedCalls, liveOccupancy, todayFootfall, avgDwellTime,
            occupancyData, demographicsData, graceTimers, awaiting, lateCalls>>

\* an axios error: kind "response" with the HTTP status, or the error code
Failure(kind, status) == [kind |-> kind, status |-> status]

NoFailure == Failure("none", 0)

\* no query is followed attempt by attempt
RetryOff ==
    /\ rpc = "off"
    /\ maxRetries = 0
    /\ attempt = 0
    /\ calls = 0
    /\ lastError = NoFailure
    /\ attemptLeft = 0
    /\ delayLeft = 0
    /\ sinceFailure = 0
    /\ failures = <<>>
    /\ gaps = <<>>
    /\ hardLeft = 0
    /\ hardTimer = "off"
    /\ thrown = NoFailure
    /\ settled = Idle

\* SocketService before connect()
\* socket is this.socket: "null", "connecting" (created by io(), its 'connect'
\* event not yet received) or "connected"; others are the sockets io() created
\* that this.socket no longer refers to and that nothing has closed
NoSocket ==
    [socket |-> "null", others |-> <<>>, alertHandlers |-> <<>>, occupancyHandlers |-> <<>>]

\* connect(): returns early when this.socket is connected or there is no token,
\* otherwise assigns a new socket to this.socket and registers its listeners
Connect(s, tok) ==
    IF s.socket = "connected" \/ tok = "null" THEN s
    ELSE [s EXCEPT !.socket = "connecting",
                   !.others = IF s.socket = "null" THEN @ ELSE Append(@, s.socket)]

\* the 'connect' event of this.socket
Connected(s) == [s EXCEPT !.socket = IF @ = "connecting" THEN "connected" ELSE @]

\* the 'connect' event of a socket this.socket no longer refers to
OtherConnected(s, k) == [s EXCEPT !.others[k] = "connected"]

\* disconnect(): closes this.socket and drops every handler
Disconnect(s) == [NoSocket EXCEPT !.others = s.others]

\* the sockets that are open and have the service's listeners registered
OpenSockets(s) == (IF s.socket = "null" THEN 0 ELSE 1) + Len(s.others)

\* the open sockets the server's events reach
ConnectedSockets(s) ==
    (IF s.socket = "connected" THEN 1 ELSE 0)
        + Cardinality({k \in DOMAIN s.others : s.others[k] = "connected"})

\* handlers.filter((h) => h !== handler)
Without(handlers, handler) == SelectSeq(handlers, LAMBDA h : h # handler)

\* the name under which the dashboard's two handlers are subscribed
DashboardHandler == "Dashboard"

\* the socket effect up to its return: connect, subscribe both handlers; the
\* server accepts the handshake before any other callback runs
SocketEffect(s, tok) ==
    LET c == Connected(Connect(s, tok))
    IN  [c EXCEPT !.occupancyHandlers = Append(@, DashboardHandler),
                  !.alertHandlers = Append(@, DashboardHandler)]

\* SocketCleanup for an effect that returns no cleanup
SocketCleanupNone(s) == s

\* the cleanup of the socket effect
SocketCleanup(s) ==
    Disconnect([s EXCEPT !.occupancyHandlers = Without(@, DashboardHandler),
                         !.alertHandlers = Without(@, DashboardHandler)])

\* handlers.forEach((handler) => handler(data)) in the listener of every
\* connected socket: how often one server event calls the handler
Calls(s, handlers, handler) ==
    ConnectedSockets(s) * Cardinality({n \in DOMAIN handlers : handlers[n] = handler})

\* the socket's listener for an event calls every subscribed handler
Delivers(s, handlers) == Calls(s, handlers, DashboardHandler) > 0

\* no alert received, panel closed
NoAlerts ==
    /\ allAlerts = <<>>
    /\ showAlertsPanel = FALSE
    /\ showAlertsPanelRef = FALSE
    /\ nAlerts = 0
    /\ payload = NoPayload

\* the authenticated requests and the HTTP client each is made with: apiClient
\* (analytics.service) or the global axios
RequestClient ==
    [r \in {"Dwell Time", "Footfall", "Occupancy", "Demographics", "Entry Exit", "Sites"} |->
        IF r = "Sites" THEN "axios" ELSE "apiClient"]

\* a user is logged in and the dashboard route is shown
LoggedIn ==
    /\ token = "jwt"
    /\ location = "/dashboard"
    /\ requests = [r \in DOMAIN RequestClient |-> [st |-> "idle", error |-> NoFailure]]
    /\ sitesCache = <<>>

\* the document has not been replaced by a navigation
PageLoaded == location = "/dashboard"

\* the component after its first render, before its effects run
Rendered(sid) ==
    /\ phase = "rendered"
    /\ siteId = sid
    /\ loading = TRUE
    /\ error = NoError
    /\ failedCalls = <<>>
    /\ liveOccupancy = Null
    /\ liveOccupancyFromSocket = Null
    /\ todayFootfall = Null
    /\ avgDwellTime = Null
    /\ occupancyData = <<>>
    /\ demographicsData = NullResponse
    /\ call = [i \in QueryIdx |-> "idle"]
    /\ race = [i \in QueryIdx |-> Idle]
    /\ timer = [i \in QueryIdx |-> "idle"]
    /\ awaiting = FALSE
    /\ graceTimers = <<>>
    /\ completedBy = 0
    /\ nBatches = 0
    /\ lateCalls = {}
    /\ socketService = NoSocket

Init ==
    /\ \E sid \in {"site-1", ""} : Rendered(sid)
    /\ RetryOff
    /\ NoAlerts
    /\ LoggedIn

\* loadDashboardData up to its await: the state is reset and, with a site id,
\* the four queries are issued, each raced against its timer
LoadDashboardData(sid) ==
    /\ nBatches < MaxBatches
    /\ nBatches' = nBatches + 1
    /\ failedCalls' = <<>>
    /\ IF sid = ""
        THEN /\ error' = ErrSiteId
             /\ loading' = FALSE
             /\ UNCHANGED <<call, race, timer, awaiting, completedBy>>
        ELSE /\ error' = NoError
             /\ loading' = TRUE
             /\ call' = [i \in QueryIdx |-> "pending"]
             /\ race' = [i \in QueryIdx |-> Pending]
             /\ timer' = [i \in QueryIdx |-> "armed"]
             /\ awaiting' = TRUE
             /\ completedBy' = 0
    /\ UNCHANGED <<liveOccupancy, liveOccupancyFromSocket, todayFootfall, avgDwellTime,
                   occupancyData, demographicsData, graceTimers, lateCalls>>

\* the two effects of the first commit: the initial load, and the socket
\* connection with its two subscriptions
MountEffects ==
    /\ phase = "rendered"
    /\ phase' = "active"
    /\ LoadDashboardData(siteId)
    /\ socketService' = SocketEffect(socketService, token)
    /\ UNCHANGED siteId

\* the Retry button of the partial-failure banner
RetryBanner ==
    /\ phase = "active"
    /\ View(error) = "dashboard"
    /\ Len(failedCalls) > 0
    /\ LoadDashboardData(siteId)
    /\ UNCHANGED <<phase, socketService, siteId>>

\* the Retry Now button of the connection-error view
RetryNow ==
    /\ phase = "active"
    /\ View(error) = "connectionError"
    /\ LoadDashboardData(siteId)
    /\ UNCHANGED <<phase, socketService, siteId>>

\* the Continue Anyway button of the connection-error view
ContinueAnyway ==
    /\ phase = "active"
    /\ View(error) = "connectionError"
    /\ error' = NoError
    /\ loading' = FALSE
    /\ UNCHANGED <<phase, socketService, siteId, failedCalls, liveOccupancy,
                   liveOccupancyFromSocket, todayFootfall, avgDwellTime, occupancyData,
                   demographicsData, call, race, timer, awaiting, graceTimers, completedBy,
                   nBatches, lateCalls>>

\* handleSetSiteId with a non-empty input, in the site-id view
HandleSetSiteId ==
    /\ phase = "active"
    /\ View(error) = "siteIdRequired"
    /\ siteId' = "site-1"
    /\ LoadDashboardData("site-1")
    /\ UNCHANGED <<phase, socketService>>

\* AllSettled with every outcome one slot off its query
AllSettledShifted(r) == [i \in QueryIdx |-> r[(i % 4) + 1]]

\* Promise.allSettled: one outcome per query, in the order of apiCalls
AllSettled(r) == [i \in QueryIdx |-> r[i]]

\* the timer started for a polled occupancy of 0: its closure holds the value;
\* sample records whether a live sample was accepted "before" the timer started,
\* "within" its window, or not at all ("none")
GraceTimer(occupancyValue) ==
    [left |-> GraceMs, value |-> occupancyValue,
     sample |-> IF liveOccupancyFromSocket # Null THEN "before" ELSE "none"]

\* FailedCallNames listing the queries that succeeded
FailedCallNamesFulfilled(results) ==
    LET F[i \in 0..4] ==
            IF i = 0 THEN <<>>
            ELSE IF results[i].st = "fulfilled" THEN Append(F[i - 1], ApiCalls[i])
            ELSE F[i - 1]
    IN  F[4]

\* failedCallNames
FailedCallNames(results) ==
    LET F[i \in 0..4] ==
            IF i = 0 THEN <<>>
            ELSE IF results[i].st = "rejected" THEN Append(F[i - 1], ApiCalls[i])
            ELSE F[i - 1]
    IN  F[4]

\* loadDashboardData after its await, through catch and finally
ProcessResults(results) ==
    LET occFulfilled == results[3].st = "fulfilled"
        occupancyValue == DeriveOccupancy(results[3].value)
        decision == IF occFulfilled
                        THEN OccupancyDecision(occupancyValue,
                                 ClosureLiveOccupancyFromSocket, ClosureLiveOccupancy)
                        ELSE "skip"
        threw == occFulfilled /\ TransformThrows(results[3].value)
    IN  /\ failedCalls' = FailedCallNames(results)
        /\ avgDwellTime' = IF results[1].st = "fulfilled"
                              THEN ExtractDwell(results[1].value) ELSE avgDwellTime
        /\ todayFootfall' = IF results[2].st = "fulfilled"
                               THEN ExtractFootfall(results[2].value) ELSE todayFootfall
        /\ liveOccupancy' = CASE decision = "set" -> occupancyValue
                              [] decision = "setNull" -> Null
                              [] OTHER -> liveOccupancy
        /\ graceTimers' = IF decision = "grace"
                             THEN Append(graceTimers, GraceTimer(occupancyValue))
                             ELSE graceTimers
        /\ occupancyData' = IF occFulfilled /\ ~threw
                               THEN TransformBuckets(results[3].value) ELSE occupancyData
        /\ demographicsData' = IF results[4].st = "fulfilled" /\ ~threw
                                  THEN IF results[4].value.isObject
                                          THEN results[4].value ELSE NullResponse
                                  ELSE demographicsData
        /\ error' = IF threw THEN ErrException
                    ELSE IF \A i \in QueryIdx : results[i].st = "rejected"
                        THEN ErrAllFailed
                    ELSE error
        /\ loading' = FALSE
        /\ awaiting' = FALSE
        /\ lateCalls' = lateCalls

\* ProcessResultsUnmounted for state updates that are applied after the unmount
ProcessResultsAlways(results) == ProcessResults(results)

\* the same code run after the unmount: React drops the state updates of an
\* unmounted component, the grace timer is still started
ProcessResultsUnmounted(results) ==
    LET occupancyValue == DeriveOccupancy(results[3].value)
        decision == IF results[3].st = "fulfilled"
                        THEN OccupancyDecision(occupancyValue,
                                 ClosureLiveOccupancyFromSocket, ClosureLiveOccupancy)
                        ELSE "skip"
    IN  /\ graceTimers' = IF decision = "grace"
                             THEN Append(graceTimers, GraceTimer(occupancyValue))
                             ELSE graceTimers
        /\ awaiting' = FALSE
        /\ lateCalls' = lateCalls \cup {"loadDashboardData"}
        /\ UNCHANGED <<loading, error, failedCalls, liveOccupancy, todayFootfall,
                       avgDwellTime, occupancyData, demographicsData>>

\* RaceIsOpen for a race that its last callback decides, not its first
RaceIsOpenAlways(i) == race[i].st # "idle"

\* whether the race of query i is still undecided
RaceIsOpen(i) == race[i].st = "pending"

\* SettleRace for a batch that applies the dwell time as soon as its query settles
SettleRaceEager(i, outcome) ==
    LET r == [race EXCEPT ![i] = outcome]
    IN  /\ race' = r
        /\ IF awaiting /\ \A j \in QueryIdx : r[j].st # "pending"
              THEN /\ IF phase = "unmounted"
                         THEN ProcessResultsUnmounted(AllSettled(r))
                         ELSE ProcessResults(AllSettled(r))
                   /\ completedBy' = i
              ELSE /\ avgDwellTime' = IF i = 1 /\ outcome.st = "fulfilled"
                                         THEN ExtractDwell(outcome.value) ELSE avgDwellTime
                   /\ UNCHANGED <<loading, error, failedCalls, liveOccupancy, todayFootfall,
                                  occupancyData, demographicsData, graceTimers, awaiting,
                                  lateCalls, completedBy>>

\* race i settles with outcome; the settlement of the last pending race resumes
\* loadDashboardData before any other callback runs
SettleRace(i, outcome) ==
    LET r == [race EXCEPT ![i] = outcome]
    IN  /\ race' = r
        /\ IF awaiting /\ \A j \in QueryIdx : r[j].st # "pending"
              THEN /\ IF phase = "unmounted"
                         THEN ProcessResultsUnmounted(AllSettled(r))
                         ELSE ProcessResults(AllSettled(r))
                   /\ completedBy' = i
              ELSE UNCHANGED <<vmVars, completedBy>>

\* the analyticsService promise of query i settles: it decides a race that is
\* still pending, and is dropped when the timer has already decided it
CallSettles(i) ==
    /\ call[i] = "pending"
    /\ \E outcome \in {Fulfilled(resp) : resp \in Responses(i)} \cup {Rejected("error")} :
          /\ call' = [call EXCEPT ![i] = "settled"]
          /\ IF RaceIsOpen(i)
                THEN SettleRace(i, outcome)
                ELSE UNCHANGED <<race, completedBy, vmVars>>
    /\ UNCHANGED <<phase, socketService, siteId, liveOccupancyFromSocket, timer, nBatches>>

\* HardTimeout for a timer whose callback rejects nothing
HardTimeoutLost(i) ==
    /\ timer[i] = "armed"
    /\ timer' = [timer EXCEPT ![i] = "fired"]
    /\ UNCHANGED <<race, completedBy, vmVars>>
    /\ UNCHANGED <<phase, socketService, siteId, liveOccupancyFromSocket, call, nBatches>>

\* the 30 s timer of query i fires: it rejects a race that is still pending
HardTimeout(i) ==
    /\ timer[i] = "armed"
    /\ timer' = [timer EXCEPT ![i] = "fired"]
    /\ IF RaceIsOpen(i)
          THEN SettleRace(i, Rejected("timeout"))
          ELSE UNCHANGED <<race, completedBy, vmVars>>
    /\ UNCHANGED <<phase, socketService, siteId, liveOccupancyFromSocket, call, nBatches>>

\* the server emits a live-occupancy event: the socket's listener calls the
\* onLiveOccupancy handler if the socket is connected and the handler subscribed
OnLiveOccupancy(event) ==
    /\ LET occupancyValue == ExtractLive(event)
       IN  IF ~Delivers(socketService, socketService.occupancyHandlers)
              THEN UNCHANGED <<liveOccupancyFromSocket, liveOccupancy, graceTimers, lateCalls>>
           ELSE IF phase = "unmounted"
              THEN /\ lateCalls' = lateCalls \cup {"onLiveOccupancy"}
                   /\ UNCHANGED <<liveOccupancyFromSocket, liveOccupancy, graceTimers>>
           ELSE IF occupancyValue # Null
              THEN /\ liveOccupancyFromSocket' = occupancyValue
                   /\ liveOccupancy' = occupancyValue
                   /\ graceTimers' = [t \in 1..Len(graceTimers) |->
                                        [graceTimers[t] EXCEPT
                                            !.sample = IF @ = "none" THEN "within" ELSE @]]
                   /\ UNCHANGED lateCalls
              ELSE UNCHANGED <<liveOccupancyFromSocket, liveOccupancy, graceTimers, lateCalls>>
    /\ UNCHANGED <<phase, socketService, siteId, loading, error, failedCalls, todayFootfall,
                   avgDwellTime, occupancyData, demographicsData, call, race, timer,
                   awaiting, completedBy, nBatches>>

\* the callback of the oldest grace timer, once its 2000 ms have passed; React
\* drops the state update of an unmounted component
GraceTimerFires ==
    /\ graceTimers # <<>>
    /\ Head(graceTimers).left = 0
    /\ liveOccupancy' = IF ClosureLiveOccupancyFromSocket = Null /\ phase # "unmounted"
                           THEN Head(graceTimers).value ELSE liveOccupancy
    /\ lateCalls' = IF phase = "unmounted" THEN lateCalls \cup {"graceTimer"} ELSE lateCalls
    /\ graceTimers' = Tail(graceTimers)
    /\ UNCHANGED <<phase, socketService, siteId, loading, error, failedCalls,
                   liveOccupancyFromSocket, todayFootfall, avgDwellTime, occupancyData,
                   demographicsData, call, race, timer, awaiting, completedBy, nBatches>>

\* TickMs pass while a grace timer runs; a timer that is due fires first
Tick ==
    /\ graceTimers # <<>>
    /\ \A t \in 1..Len(graceTimers) : graceTimers[t].left > 0
    /\ graceTimers' = [t \in 1..Len(graceTimers) |->
                          [graceTimers[t] EXCEPT !.left = @ - TickMs]]
    /\ UNCHANGED <<phase, socketService, siteId, loading, error, failedCalls, liveOccupancy,
                   liveOccupancyFromSocket, todayFootfall, avgDwellTime, occupancyData,
                   demographicsData, call, race, timer, awaiting, completedBy,
                   nBatches, lateCalls>>

\* the component unmounts (the route changes): the cleanup of the socket effect
\* runs; the load effect has no cleanup, so queries, timers and an awaited
\* batch stay as they are
Unmount ==
    /\ phase = "active"
    /\ phase' = "unmounted"
    /\ socketService' = SocketCleanup(socketService)
    /\ UNCHANGED <<siteId, loading, error, failedCalls, liveOccupancy,
                   liveOccupancyFromSocket, todayFootfall, avgDwellTime, occupancyData,
                   demographicsData, call, race, timer, awaiting, graceTimers, completedBy,
                   nBatches, lateCalls>>

\* capacity of the alert list
AlertCapacity == 100

\* alert events the server emits in one run
MaxAlerts == 150

\* alert events in a run that opens and closes the panel freely
MaxPanelAlerts == 5

\* the payload of the n-th alert event
AlertEvent(n) == [kind |-> "object", id |-> n]

\* updated.slice(0, 100)
Slice(s, n) == IF Len(s) <= n THEN s ELSE SubSeq(s, 1, n)

\* Prepend putting the event at the end of the list
PrependAtEnd(event, prev) == Slice(Append(prev, event), AlertCapacity)

\* the updater of setAllAlerts
Prepend(event, prev) == Slice(<<event>> \o prev, AlertCapacity)

\* Accepts for a handler that does not look at the panel flag
AcceptsAlways(event, ref) == event.kind = "object"

\* the handler's two conditions: the payload is an object, the panel is open
Accepts(event, ref) == event.kind = "object" /\ ref

\* the updater of setAllAlerts run once for each of n calls of the handler
RECURSIVE PrependTimes(_, _, _)
PrependTimes(event, prev, n) ==
    IF n = 0 THEN prev ELSE PrependTimes(event, Prepend(event, prev), n - 1)

\* the server emits an alert event: the listener of every connected socket calls
\* the onAlert handler as often as it is subscribed
OnAlert(event) ==
    /\ nAlerts < MaxAlerts
    /\ event.id = nAlerts + 1
    /\ nAlerts' = nAlerts + 1
    /\ IF ~Delivers(socketService, socketService.alertHandlers)
          THEN UNCHANGED <<allAlerts, lateCalls>>
       ELSE IF phase = "unmounted"
          THEN /\ lateCalls' = lateCalls \cup {"onAlert"}
               /\ UNCHANGED allAlerts
       ELSE /\ allAlerts' = IF Accepts(event, showAlertsPanelRef)
                               THEN PrependTimes(event, allAlerts,
                                        Calls(socketService, socketService.alertHandlers,
                                              DashboardHandler))
                               ELSE allAlerts
            /\ UNCHANGED lateCalls
    /\ UNCHANGED <<phase, socketService, siteId, loading, error, failedCalls, liveOccupancy,
                   liveOccupancyFromSocket, todayFootfall, avgDwellTime, occupancyData,
                   demographicsData, call, race, timer, awaiting, graceTimers, completedBy,
                   nBatches, showAlertsPanel, showAlertsPanelRef, payload>>

\* TopHeader's onNotificationClick
OpenAlertsPanel ==
    /\ phase = "active"
    /\ View(error) = "dashboard"
    /\ showAlertsPanel' = TRUE
    /\ showAlertsPanelRef' = TRUE
    /\ UNCHANGED <<dashVars, allAlerts, nAlerts, payload>>

\* AlertsPanel's onClose
CloseAlertsPanel ==
    /\ phase = "active"
    /\ View(error) = "dashboard"
    /\ showAlertsPanel
    /\ showAlertsPanel' = FALSE
    /\ showAlertsPanelRef' = FALSE
    /\ UNCHANGED <<dashVars, allAlerts, nAlerts, payload>>

\* an entry of the site directory
Site(id, name) == [siteId |-> id, name |-> name]

\* bodies of GET /sites
SitesResponses ==
    { <<>>,
      <<Site("site-1", "Main Hall")>>,
      <<Site("site-1", "Main Hall"), Site("site-2", "Annex")>>,
      <<Site("site-2", "Annex")>>,
      <<Site("site-1", "")>> }

\* the Map fetchSites builds: the sites that have an id and a name, a later
\* entry replacing an earlier one of the same id
CacheOf(sites) ==
    LET named == SelectSeq(sites, LAMBDA s : s.siteId # "" /\ s.name # "")
    IN  [id \in {named[k].siteId : k \in 1..Len(named)} |->
            named[CHOOSE k \in 1..Len(named) :
                     /\ named[k].siteId = id
                     /\ \A j \in (k + 1)..Len(named) : named[j].siteId # id].name]

\* AlertsPanel's effect on isOpen, run for the panel that has just been opened:
\* fetchSites up to its await
FetchSitesEffect ==
    /\ IF DOMAIN sitesCache = {} /\ token # "null"
          THEN requests' = [requests EXCEPT !["Sites"] = [st |-> "pending", error |-> NoFailure]]
          ELSE UNCHANGED requests
    /\ UNCHANGED <<token, location, sitesCache>>

\* GET /sites is answered with a directory: fetchSites after its await
SitesFetched(sites) ==
    /\ PageLoaded
    /\ requests["Sites"].st = "pending"
    /\ requests' = [requests EXCEPT !["Sites"].st = "ok"]
    /\ sitesCache' = CacheOf(sites)
    /\ UNCHANGED <<token, location, siteId>>

\* Spec leaves out the callbacks that lose a race (a response after the timer
\* fired, a timer after the response): SpecRace has them
Next ==
    \/ MountEffects /\ UNCHANGED <<retryVars, streamVars, sessionVars>>
    \/ RetryBanner /\ UNCHANGED <<retryVars, streamVars, sessionVars>>
    \/ RetryNow /\ UNCHANGED <<retryVars, streamVars, sessionVars>>
    \/ ContinueAnyway /\ UNCHANGED <<retryVars, streamVars, sessionVars>>
    \/ HandleSetSiteId /\ UNCHANGED <<retryVars, streamVars, sessionVars>>
    \/ (\E i \in QueryIdx : race[i].st = "pending" /\ CallSettles(i)) /\ UNCHANGED <<retryVars, streamVars, sessionVars>>
    \/ (\E i \in QueryIdx : race[i].st = "pending" /\ HardTimeout(i)) /\ UNCHANGED <<retryVars, streamVars, sessionVars>>
    \/ (\E event \in LiveEvents : OnLiveOccupancy(event)) /\ UNCHANGED <<retryVars, streamVars, sessionVars>>
    \/ GraceTimerFires /\ UNCHANGED <<retryVars, streamVars, sessionVars>>
    \/ Tick /\ UNCHANGED <<retryVars, streamVars, sessionVars>>

Spec == Init /\ [][Next]_vars

\* the batches of a mounted dashboard: queries that are answered or not, the
\* timers, the retry buttons
NextBatch ==
    \/ MountEffects /\ UNCHANGED <<retryVars, streamVars, sessionVars>>
    \/ RetryBanner /\ UNCHANGED <<retryVars, streamVars, sessionVars>>
    \/ RetryNow /\ UNCHANGED <<retryVars, streamVars, sessionVars>>
    \/ (\E i \in QueryIdx : race[i].st = "pending" /\ CallSettles(i))
          /\ UNCHANGED <<retryVars, streamVars, sessionVars>>
    \/ (\E i \in QueryIdx : race[i].st = "pending" /\ HardTimeout(i))
          /\ UNCHANGED <<retryVars, streamVars, sessionVars>>

\* a timer that is set fires: the callback of a pending setTimeout is run by the
\* event loop; nothing obliges the server to answer a query
TimersFire ==
    \A i \in QueryIdx :
        WF_vars(race[i].st = "pending" /\ HardTimeout(i)
                    /\ UNCHANGED <<retryVars, streamVars, sessionVars>>)

SpecBatch == Init /\ [][NextBatch]_vars /\ TimersFire

\* the initial load alone, with every callback of the four races
NextRace ==
    \/ MountEffects /\ UNCHANGED <<retryVars, streamVars, sessionVars>>
    \/ (\E i \in QueryIdx : CallSettles(i)) /\ UNCHANGED <<retryVars, streamVars, sessionVars>>
    \/ (\E i \in QueryIdx : HardTimeout(i)) /\ UNCHANGED <<retryVars, streamVars, sessionVars>>
    \/ (\E event \in LiveEvents : OnLiveOccupancy(event)) /\ UNCHANGED <<retryVars, streamVars, sessionVars>>
    \/ GraceTimerFires /\ UNCHANGED <<retryVars, streamVars, sessionVars>>
    \/ Tick /\ UNCHANGED <<retryVars, streamVars, sessionVars>>

SpecRace == Init /\ [][NextRace]_vars

\* the alert list filling up: the panel is opened and never closed
NextAlerts ==
    \/ MountEffects /\ UNCHANGED <<retryVars, streamVars, sessionVars>>
    \/ OpenAlertsPanel /\ FetchSitesEffect /\ UNCHANGED retryVars
    \/ (\E event \in {AlertEvent(nAlerts + 1)} : OnAlert(event))
          /\ UNCHANGED <<retryVars, sessionVars>>

SpecAlerts == Init /\ [][NextAlerts]_vars

\* the two streams with the panel opened and closed and the component unmounted
NextPanel ==
    \/ MountEffects /\ UNCHANGED <<retryVars, streamVars, sessionVars>>
    \/ OpenAlertsPanel /\ FetchSitesEffect /\ UNCHANGED retryVars
    \/ CloseAlertsPanel /\ UNCHANGED <<retryVars, sessionVars>>
    \/ (\E event \in {AlertEvent(nAlerts + 1)} :
            nAlerts < MaxPanelAlerts /\ OnAlert(event))
          /\ UNCHANGED <<retryVars, sessionVars>>
    \/ (\E event \in LiveEvents : OnLiveOccupancy(event))
          /\ UNCHANGED <<retryVars, streamVars, sessionVars>>
    \/ Unmount /\ UNCHANGED <<retryVars, streamVars, sessionVars>>

SpecPanel == Init /\ [][NextPanel]_vars

\* the initial load with the component unmounted at any moment
NextTeardown ==
    \/ MountEffects /\ UNCHANGED <<retryVars, streamVars, sessionVars>>
    \/ (\E i \in QueryIdx : race[i].st = "pending" /\ CallSettles(i))
          /\ UNCHANGED <<retryVars, streamVars, sessionVars>>
    \/ (\E i \in QueryIdx : race[i].st = "pending" /\ HardTimeout(i))
          /\ UNCHANGED <<retryVars, streamVars, sessionVars>>
    \/ (\E event \in LiveEvents : OnLiveOccupancy(event))
          /\ UNCHANGED <<retryVars, streamVars, sessionVars>>
    \/ GraceTimerFires /\ UNCHANGED <<retryVars, streamVars, sessionVars>>
    \/ Tick /\ UNCHANGED <<retryVars, streamVars, sessionVars>>
    \/ Unmount /\ UNCHANGED <<retryVars, streamVars, sessionVars>>

SpecTeardown == Init /\ [][NextTeardown]_vars

\* the mounted dashboard before the server emits one payload
InitLive ==
    /\ Rendered("site-1")
    /\ RetryOff
    /\ allAlerts = <<>>
    /\ showAlertsPanel = FALSE
    /\ showAlertsPanelRef = FALSE
    /\ nAlerts = 0
    /\ payload \in LivePayloads
    /\ LoggedIn

\* the server emits the chosen payload
EmitPayload ==
    /\ payload # NoPayload
    /\ OnLiveOccupancy(payload)
    /\ payload' = NoPayload

\* the handler applied to one payload, after a first sample or without one
NextLive ==
    \/ MountEffects /\ UNCHANGED <<retryVars, streamVars, sessionVars>>
    \/ (\E event \in {LiveEvent(Num(7), Undefined)} : OnLiveOccupancy(event))
          /\ UNCHANGED <<retryVars, streamVars, sessionVars>>
    \/ EmitPayload /\ UNCHANGED <<retryVars, alertVars, sessionVars>>

SpecLive == InitLive /\ [][NextLive]_vars

\* object payloads with every combination of the four fields the handler reads,
\* and bare numbers
OrderPayloads ==
    { [kind |-> "object", occupancy |-> o, count |-> c, current |-> u, value |-> v,
       num |-> Undefined] : o \in FieldValues, c \in FieldValues,
                            u \in FieldValues, v \in FieldValues }
    \cup { LiveNumber(v) : v \in {Num(0), Num(42), Num(0 - 1), NaN} }

\* the mounted dashboard before the server emits one of these payloads
InitOrder ==
    /\ Rendered("site-1")
    /\ RetryOff
    /\ allAlerts = <<>>
    /\ showAlertsPanel = FALSE
    /\ showAlertsPanelRef = FALSE
    /\ nAlerts = 0
    /\ payload \in OrderPayloads
    /\ LoggedIn

\* the server emits the chosen payload; the payload is kept, marked as handled
HandlePayload ==
    /\ payload.kind \in {"object", "number"}
    /\ OnLiveOccupancy(payload)
    /\ payload' = [payload EXCEPT !.kind = "handled"]

\* the handler applied to one payload, without a first sample
NextOrder ==
    \/ MountEffects /\ UNCHANGED <<retryVars, streamVars, sessionVars>>
    \/ HandlePayload /\ UNCHANGED <<retryVars, alertVars, sessionVars>>

SpecOrder == InitOrder /\ [][NextOrder]_vars

-----------------------------------------------------------------------------
(* One batch over the shapes a query's response body can take *)

\* what the metric field of a response body can hold
MetricValues ==
    { Undefined, Null, NaN, Infinity, NegInfinity, Num(0), Num(5), Num(0 - 1),
      Str(<<"5">>) }

\* bucket sequences of an occupancy body
OccupancyBucketLists ==
    { <<>>,
      <<Bucket(Num(1000), Num(4)), Bucket(Num(2000), Num(6))>>,
      <<Bucket(Num(1000), Num(4)), Bucket(Num(2000), Undefined)>>,
      <<Bucket(Num(1000), Num(6)), Bucket(Num(2000), Num(0))>> }

\* the bodies a fulfilled query of the batch can carry
MetricResponses(i) ==
    CASE i = 1 -> { [EmptyResponse EXCEPT !.avgDwellMinutes = v] : v \in MetricValues }
                  \cup {NullResponse}
      [] i = 2 -> { [EmptyResponse EXCEPT !.footfall = v] : v \in MetricValues }
                  \cup {NullResponse}
      [] i = 3 -> { [WithBuckets(bs) EXCEPT !.current = c, !.occupancy = o] :
                       bs \in OccupancyBucketLists,
                       c \in {Undefined, Num(3), Num(0 - 1), Str(<<"3">>), Infinity},
                       o \in {Undefined, Num(8)} }
                  \cup { [EmptyResponse EXCEPT !.current = c, !.occupancy = o] :
                            c \in {Undefined, Num(3)}, o \in {Undefined, Num(8)} }
      [] i = 4 -> { WithBuckets(<<DemographicsBucket(Num(1000), Num(3), Num(2))>>),
                    WithBuckets(<<DemographicsBucket(Num(1000), Undefined, Num(2)),
                                  DemographicsBucket(Num(2000), Num(4), NaN)>>),
                    WithBuckets(<<DemographicsBucket(Num(1000), Str(<<"3">>), Null)>>),
                    WithBuckets(<<DemographicsBucket(Undefined, Num(3), Num(2)),
                                  DemographicsBucket(Num(2000), Num(1), Num(1))>>),
                    WithBuckets(<<DemographicsBucket(Str(<<"a", "b", "c">>), Num(3), Num(2))>>),
                    WithBuckets(<<>>),
                    EmptyResponse,
                    NullResponse }

\* the analyticsService promise of query i is fulfilled with one of these bodies
CallReturns(i) ==
    /\ call[i] = "pending"
    /\ \E resp \in MetricResponses(i) :
          /\ call' = [call EXCEPT ![i] = "settled"]
          /\ IF RaceIsOpen(i)
                THEN SettleRace(i, Fulfilled(resp))
                ELSE UNCHANGED <<race, completedBy, vmVars>>
    /\ UNCHANGED <<phase, socketService, siteId, liveOccupancyFromSocket, timer, nBatches>>

\* the initial load with every body shape; a query without answer is timed out
NextMetrics ==
    \/ MountEffects /\ UNCHANGED <<retryVars, streamVars, sessionVars>>
    \/ (\E i \in QueryIdx : race[i].st = "pending" /\ CallReturns(i))
          /\ UNCHANGED <<retryVars, streamVars, sessionVars>>
    \/ (\E i \in QueryIdx : race[i].st = "pending" /\ HardTimeout(i))
          /\ UNCHANGED <<retryVars, streamVars, sessionVars>>
    \/ GraceTimerFires /\ UNCHANGED <<retryVars, streamVars, sessionVars>>
    \/ Tick /\ UNCHANGED <<retryVars, streamVars, sessionVars>>

\* the dashboard of a user with a stored site after its first render
InitMetrics ==
    /\ Rendered("site-1")
    /\ RetryOff
    /\ NoAlerts
    /\ LoggedIn

SpecMetrics == InitMetrics /\ [][NextMetrics]_vars

-----------------------------------------------------------------------------
(* DemographicsChart: what it renders for the data prop *)

\* a value that counts as true in a condition
Truthy(v) ==
    \/ v.k \in {"Infinity", "-Infinity"}
    \/ v.k = "number" /\ v.n # 0
    \/ v.k = "string" /\ v.s # <<>>

\* typeof count === "number" && !isNaN(count) ? count : 0
ChartCount(v) == IF v.k \in {"number", "Infinity", "-Infinity"} THEN v ELSE Num(0)

\* a + b for two numbers
JsAdd(a, b) ==
    IF a.k = "number" /\ b.k = "number" THEN Num(a.n + b.n)
    ELSE IF a.k = "number" THEN b
    ELSE IF b.k = "number" \/ a = b THEN a
    ELSE NaN

\* buckets.reduce over the male or the female counts
RECURSIVE ChartTotal(_, _)
ChartTotal(buckets, field) ==
    IF buckets = <<>> THEN Num(0)
    ELSE LET rest == SubSeq(buckets, 1, Len(buckets) - 1)
             last == buckets[Len(buckets)]
         IN  JsAdd(ChartTotal(rest, field),
                   ChartCount(IF field = "male" THEN last.male ELSE last.female))

\* the buckets that pass the first filter
WithUtc(buckets) == SelectSeq(buckets, LAMBDA b : Truthy(b.utc))

\* new Date(bucket.utc).toISOString() of a point throws on an invalid date
ChartThrows(buckets) ==
    \E b \in 1..Len(WithUtc(buckets)) : DateTimeValue(WithUtc(buckets)[b].utc).k # "number"

\* timeseriesData: a point per bucket that has a utc; format() of an invalid date
\* throws and leaves time empty, and points with an empty time are removed
TimeseriesData(buckets) ==
    LET dated == SelectSeq(WithUtc(buckets),
                           LAMBDA b : DateTimeValue(b.utc).k = "number")
    IN  [p \in 1..Len(dated) |->
            [timestamp |-> [iso |-> DateTimeValue(dated[p].utc).n],
             male |-> ChartCount(dated[p].male),
             female |-> ChartCount(dated[p].female)]]

\* the render: "noData" for the placeholder, "error" when the render throws,
\* "charts" with the totals of the donut and the points of the time series
DemographicsChart(data) ==
    IF ~data.isObject \/ ~data.hasBuckets \/ Len(data.buckets) = 0
        THEN [view |-> "noData", totalMale |-> Num(0), totalFemale |-> Num(0),
              timeseriesData |-> <<>>]
    ELSE IF ChartThrows(data.buckets)
        THEN [view |-> "error", totalMale |-> Num(0), totalFemale |-> Num(0),
              timeseriesData |-> <<>>]
    ELSE [view |-> "charts",
          totalMale |-> ChartTotal(data.buckets, "male"),
          totalFemale |-> ChartTotal(data.buckets, "female"),
          timeseriesData |-> TimeseriesData(data.buckets)]

-----------------------------------------------------------------------------
(* One analytics query: retryWithBackoff, makeRequest, and the query's race *)
(* against timeoutPromise's timer                                          *)

\* makeRequest's arguments to retryWithBackoff
MakeRequestMaxRetries == 1

BaseDelay == 1000
\* retryWithBackoff's default for maxRetries
DefaultMaxRetries == 3
\* apiClient's timeout
AxiosTimeoutMs == 30000
\* step of the query's clock
RetryTickMs == BaseDelay

\* the runs of retryWithBackoff: as makeRequest calls it, and with its default
RetryConfigs == {MakeRequestMaxRetries, DefaultMaxRetries}

\* what an attempt can fail with before its timeout
AttemptFailures ==
    { Failure("response", 401), Failure("response", 404), Failure("response", 500),
      Failure("ERR_NETWORK", 0) }

\* axios' own failure when apiClient's timeout passes
TimeoutFailure == Failure("ECONNABORTED", 0)

\* IsFatal for a policy that retries a 404
IsFatalOnly401(e) == e.kind = "response" /\ e.status = 401

\* the errors retryWithBackoff rethrows at once
IsFatal(e) == e.kind = "response" /\ e.status \in {401, 404}

\* IsLastAttempt for a loop that runs one attempt more
IsLastAttemptOffByOne(a, m) == a = m + 1

\* attempt === maxRetries
IsLastAttempt(a, m) == a = m

\* BackoffDelay without the exponent
BackoffDelayConstant(baseDelay, a) == baseDelay

\* delay
BackoffDelay(baseDelay, a) == baseDelay * 2^a

\* RecordError for a policy that keeps the first error it saw
RecordErrorFirst(prev, e) == IF prev = NoFailure THEN e ELSE prev

\* lastError = error
RecordError(prev, e) == e

\* the Error makeRequest's catch throws for what retryWithBackoff threw
MakeRequestError(e) ==
    IF e.kind = "ECONNABORTED" THEN [message |-> "timed out", status |-> 0]
    ELSE IF e.kind = "ERR_NETWORK" THEN [message |-> "Cannot connect to API server", status |-> 0]
    ELSE [message |-> "failed", status |-> e.status]

\* makeRequest has called retryWithBackoff, which awaits the first fn(); the
\* dashboard has started the query's timer
InitRetry ==
    /\ Rendered("site-1")
    /\ rpc = "attempt"
    /\ maxRetries \in RetryConfigs
    /\ attempt = 0
    /\ calls = 1
    /\ lastError = NoFailure
    /\ attemptLeft = AxiosTimeoutMs
    /\ delayLeft = 0
    /\ sinceFailure = 0
    /\ failures = <<>>
    /\ gaps = <<>>
    /\ hardLeft = HardTimeoutMs
    /\ hardTimer = "armed"
    /\ thrown = NoFailure
    /\ settled = Pending
    /\ NoAlerts
    /\ LoggedIn

\* authService.logout(): the stored token and site id are removed
Logout ==
    /\ token' = "null"
    /\ siteId' = ""

\* Intercepts for an interceptor that lets a 401 pass
InterceptsNothing(e) == FALSE

\* error.response?.status === 401
Intercepts(e) == e.kind = "response" /\ e.status = 401

\* apiClient's response interceptor for a rejected request
ResponseInterceptor(e) ==
    IF Intercepts(e)
        THEN /\ Logout
             /\ location' = "/login"
        ELSE UNCHANGED <<token, siteId, location>>

\* fn() resolves: retryWithBackoff returns the data, and the race takes it if the
\* timer has not decided it
AttemptSucceeds ==
    /\ PageLoaded
    /\ rpc = "attempt"
    /\ rpc' = "returned"
    /\ settled' = IF settled.st = "pending" THEN Fulfilled(EmptyResponse) ELSE settled
    /\ UNCHANGED <<maxRetries, attempt, calls, lastError, attemptLeft, delayLeft,
                   sinceFailure, failures, gaps, hardLeft, hardTimer, thrown>>

\* fn() rejects with e: the catch block of retryWithBackoff, and makeRequest's
\* catch when retryWithBackoff throws
AttemptFails(e) ==
    /\ PageLoaded
    /\ rpc = "attempt"
    /\ ResponseInterceptor(e)
    /\ (e = TimeoutFailure) <=> (attemptLeft = 0)
    /\ lastError' = RecordError(lastError, e)
    /\ failures' = Append(failures, e)
    /\ sinceFailure' = 0
    /\ IF IsFatal(e) \/ IsLastAttempt(attempt, maxRetries)
          THEN /\ rpc' = "thrown"
               /\ thrown' = MakeRequestError(IF IsFatal(e) THEN e ELSE lastError')
               /\ settled' = IF settled.st = "pending" THEN Rejected("error") ELSE settled
               /\ UNCHANGED delayLeft
          ELSE /\ rpc' = "backoff"
               /\ delayLeft' = BackoffDelay(BaseDelay, attempt)
               /\ UNCHANGED <<thrown, settled>>
    /\ UNCHANGED <<maxRetries, attempt, calls, attemptLeft, gaps, hardLeft, hardTimer>>

\* BackoffElapses for a query whose timer and race start again with every attempt
BackoffElapsesRearms ==
    /\ PageLoaded
    /\ rpc = "backoff"
    /\ delayLeft = 0
    /\ rpc' = "attempt"
    /\ attempt' = attempt + 1
    /\ calls' = calls + 1
    /\ attemptLeft' = AxiosTimeoutMs
    /\ gaps' = Append(gaps, sinceFailure)
    /\ hardLeft' = HardTimeoutMs
    /\ hardTimer' = "armed"
    /\ settled' = Pending
    /\ UNCHANGED <<maxRetries, lastError, delayLeft, sinceFailure, failures, thrown>>

\* the backoff timer fires: the loop's next iteration calls fn()
BackoffElapses ==
    /\ PageLoaded
    /\ rpc = "backoff"
    /\ delayLeft = 0
    /\ rpc' = "attempt"
    /\ attempt' = attempt + 1
    /\ calls' = calls + 1
    /\ attemptLeft' = AxiosTimeoutMs
    /\ gaps' = Append(gaps, sinceFailure)
    /\ UNCHANGED <<maxRetries, lastError, delayLeft, sinceFailure, failures, hardLeft,
                   hardTimer, thrown, settled>>

\* timeoutPromise's timer fires: it rejects the race if nothing has decided it
HardTimerFires ==
    /\ PageLoaded
    /\ hardTimer = "armed"
    /\ hardLeft = 0
    /\ hardTimer' = "fired"
    /\ settled' = IF settled.st = "pending" THEN Rejected("timeout") ELSE settled
    /\ UNCHANGED <<rpc, maxRetries, attempt, calls, lastError, attemptLeft, delayLeft,
                   sinceFailure, failures, gaps, hardLeft, thrown>>

\* RetryTickMs pass; a timer that is due fires first
RetryTick ==
    /\ PageLoaded
    /\ rpc \in {"attempt", "backoff"} \/ hardTimer = "armed"
    /\ rpc = "attempt" => attemptLeft > 0
    /\ rpc = "backoff" => delayLeft > 0
    /\ hardTimer = "armed" => hardLeft > 0
    /\ attemptLeft' = IF rpc = "attempt" THEN attemptLeft - RetryTickMs ELSE attemptLeft
    /\ delayLeft' = IF rpc = "backoff" THEN delayLeft - RetryTickMs ELSE delayLeft
    /\ sinceFailure' = IF rpc = "backoff" THEN sinceFailure + RetryTickMs ELSE sinceFailure
    /\ hardLeft' = IF hardTimer = "armed" THEN hardLeft - RetryTickMs ELSE hardLeft
    /\ UNCHANGED <<rpc, maxRetries, attempt, calls, lastError, failures, gaps, hardTimer,
                   thrown, settled>>

NextRetry ==
    \/ AttemptSucceeds /\ UNCHANGED <<dashVars, streamVars, sessionVars>>
    \/ (\E e \in AttemptFailures \cup {TimeoutFailure} : AttemptFails(e))
          /\ UNCHANGED <<viewVars, streamVars, requests, sitesCache>>
    \/ BackoffElapses /\ UNCHANGED <<dashVars, streamVars, sessionVars>>
    \/ HardTimerFires /\ UNCHANGED <<dashVars, streamVars, sessionVars>>
    \/ RetryTick /\ UNCHANGED <<dashVars, streamVars, sessionVars>>

SpecRetry == InitRetry /\ [][NextRetry]_vars

\* what a request can be answered with
RequestFailures == {Failure("response", 401), Failure("response", 500)}

\* an authenticated request is sent: the analytics queries and the entry-exit
\* query by analyticsService, GET /sites by the alerts panel's fetchSites
SendRequest(r) ==
    /\ PageLoaded
    /\ token # "null"
    /\ requests[r].st = "idle"
    /\ requests' = [requests EXCEPT ![r].st = "pending"]
    /\ UNCHANGED <<token, location, siteId>>

\* the request is answered with a success
RequestSucceeds(r) ==
    /\ PageLoaded
    /\ requests[r].st = "pending"
    /\ requests' = [requests EXCEPT ![r].st = "ok"]
    /\ UNCHANGED <<token, location, siteId>>

\* the request is answered with an error status: apiClient runs its response
\* interceptor, fetchSites catches the error of the global axios and logs it
RequestFails(r, e) ==
    /\ PageLoaded
    /\ requests[r].st = "pending"
    /\ requests' = [requests EXCEPT ![r] = [st |-> "failed", error |-> e]]
    /\ IF RequestClient[r] = "apiClient"
          THEN ResponseInterceptor(e)
          ELSE UNCHANGED <<token, location, siteId>>

\* what getSiteName reads of an alert: site.name, site.id and siteId, "" for a
\* field that is missing
AlertSites ==
    [name : {"", "Lobby"}, id : {"", "site-1", "site-2", "site-9"}, siteId : {"", "site-2"}]

\* GetSiteName with the site id shown for a site that is not cached
GetSiteNameShowsId(alert) ==
    IF alert.name # "" THEN alert.name
    ELSE LET id == IF alert.id # "" THEN alert.id ELSE alert.siteId
         IN  IF id # "" /\ id \in DOMAIN sitesCache THEN sitesCache[id]
             ELSE IF siteId # "" /\ siteId \in DOMAIN sitesCache THEN sitesCache[siteId]
             ELSE IF id # "" THEN id
             ELSE "Unknown Site"

\* getSiteName, with the cache and the stored site id of the render
GetSiteName(alert) ==
    IF alert.name # "" THEN alert.name
    ELSE LET id == IF alert.id # "" THEN alert.id ELSE alert.siteId
         IN  IF id # "" /\ id \in DOMAIN sitesCache THEN sitesCache[id]
             ELSE IF siteId # "" /\ siteId \in DOMAIN sitesCache THEN sitesCache[siteId]
             ELSE "Unknown Site"

\* the alerts panel with its site directory: the panel is opened and closed,
\* the directory arrives or fails, alerts arrive meanwhile
NextSites ==
    \/ MountEffects /\ UNCHANGED <<retryVars, streamVars, sessionVars>>
    \/ OpenAlertsPanel /\ FetchSitesEffect /\ UNCHANGED retryVars
    \/ CloseAlertsPanel /\ UNCHANGED <<retryVars, sessionVars>>
    \/ (\E event \in {AlertEvent(nAlerts + 1)} :
            nAlerts < MaxPanelAlerts /\ OnAlert(event))
          /\ UNCHANGED <<retryVars, sessionVars>>
    \/ (\E sites \in SitesResponses : SitesFetched(sites))
          /\ UNCHANGED <<viewVars, retryVars, streamVars>>
    \/ (\E e \in RequestFailures : RequestFails("Sites", e))
          /\ UNCHANGED <<viewVars, retryVars, streamVars, sitesCache>>

SpecSites == Init /\ [][NextSites]_vars

NextSession ==
    \/ (\E r \in DOMAIN RequestClient : SendRequest(r))
          /\ UNCHANGED <<viewVars, retryVars, streamVars, sitesCache>>
    \/ (\E r \in DOMAIN RequestClient \ {"Sites"} : RequestSucceeds(r))
          /\ UNCHANGED <<viewVars, retryVars, streamVars, sitesCache>>
    \/ (\E sites \in SitesResponses : SitesFetched(sites))
          /\ UNCHANGED <<viewVars, retryVars, streamVars>>
    \/ (\E r \in DOMAIN RequestClient, e \in RequestFailures : RequestFails(r, e))
          /\ UNCHANGED <<viewVars, retryVars, streamVars, sitesCache>>

SpecSession == Init /\ [][NextSession]_vars

-----------------------------------------------------------------------------
(* Claims about the dashboard component *)

\* the step that resumes loadDashboardData after its await and runs it to its end
BatchCompletes == awaiting /\ ~awaiting'

\* the step in which the handler accepts a live sample
SampleAccepted == liveOccupancyFromSocket' # liveOccupancyFromSocket

\* an occupancy response without scalar fields whose last bucket averages 0
LastBucketIsZero(resp) ==
    /\ resp.current = Undefined
    /\ resp.occupancy = Undefined
    /\ resp.hasBuckets
    /\ Len(resp.buckets) > 0
    /\ resp.buckets[Len(resp.buckets)].avg = Num(0)

\* C1: once a live sample has been accepted, liveOccupancy is the most recently
\* accepted live sample in every state, whatever batch completes afterwards.
C1_LiveOccupancyIsLastSample ==
    liveOccupancyFromSocket # Null => liveOccupancy = liveOccupancyFromSocket

\* C2: when a batch saw a polled occupancy of 0 before any live sample and a live
\* sample is accepted within the grace window, liveOccupancy stays that sample:
\* until the window's timer has fired, only a newer live sample changes it.
C2_SampleWithinGraceWins ==
    [][ ( /\ \E t \in 1..Len(graceTimers) : graceTimers[t].sample = "within"
          /\ ~SampleAccepted )
        => liveOccupancy' = liveOccupancy ]_vars

\* C3: a batch whose occupancy query succeeds with a derived value of 0 before any
\* live sample leaves liveOccupancy as it is and starts a timer of 2000 ms; when
\* that timer fires and no live sample has been accepted, liveOccupancy becomes 0;
\* no timer outlives its 2000 ms.
C3_ZeroWaitsForGrace ==
    [][ /\ ( /\ BatchCompletes
             /\ race'[3].st = "fulfilled"
             /\ LastBucketIsZero(race'[3].value)
             /\ liveOccupancyFromSocket = Null )
           => /\ liveOccupancy' = liveOccupancy
              /\ Len(graceTimers') = Len(graceTimers) + 1
              /\ graceTimers'[Len(graceTimers')].left = GraceMs
        /\ ( /\ Len(graceTimers') < Len(graceTimers)
             /\ Head(graceTimers).sample = "none" )
           => /\ Head(graceTimers).left = 0
              /\ liveOccupancy' = Num(0)
        /\ \A t \in 1..Len(graceTimers') : graceTimers'[t].left >= 0 ]_vars

\* the grace timer of a zero batch has fired, no live sample ever came
C3_Witness ==
    /\ ~awaiting
    /\ race[3].st = "fulfilled"
    /\ LastBucketIsZero(race[3].value)
    /\ graceTimers = <<>>
    /\ liveOccupancyFromSocket = Null
    /\ liveOccupancy = Num(0)

\* C8: every completed batch has one outcome per query, failedCalls names the
\* rejected ones in the order of apiCalls, and each metric keeps its value or
\* takes the value of its own query's response, whatever the settlement order.
C8_OutcomesByIdentity ==
    [][ BatchCompletes =>
        /\ \A i \in QueryIdx : race'[i].st \in {"fulfilled", "rejected"}
        /\ failedCalls' = SelectSeq(ApiCalls,
                              LAMBDA name : \E i \in QueryIdx :
                                  ApiCalls[i] = name /\ race'[i].st = "rejected")
        /\ avgDwellTime' = IF race'[1].st = "fulfilled"
                              THEN race'[1].value.avgDwellMinutes ELSE avgDwellTime
        /\ todayFootfall' = IF race'[2].st = "fulfilled"
                               THEN race'[2].value.footfall ELSE todayFootfall
        /\ \/ occupancyData' = occupancyData
           \/ /\ race'[3].st = "fulfilled"
              /\ Len(occupancyData') = Len(race'[3].value.buckets)
              /\ \A b \in 1..Len(occupancyData') :
                    occupancyData'[b].occupancy = race'[3].value.buckets[b].avg
        /\ \/ demographicsData' = demographicsData
           \/ race'[4].st = "fulfilled" /\ demographicsData' = race'[4].value ]_vars

\* a batch completed by the settlement of its first query, after the three others,
\* with the second rejected and the first fulfilled
C8_Witness ==
    /\ ~awaiting
    /\ completedBy = 1
    /\ race[1].st = "fulfilled"
    /\ race[2].st = "rejected"
    /\ race[4].st = "fulfilled"
    /\ avgDwellTime = Num(5)
    /\ failedCalls = <<"Footfall">>
    /\ demographicsData = race[4].value

\* C9: a race is decided by the first of its two callbacks: the timer rejects it
\* with the timeout, the call gives it the call's outcome; the callback that comes
\* second changes neither the race nor anything the component shows.
C9_FirstCallbackDecides ==
    [][ \A i \in QueryIdx :
          /\ (race[i].st = "pending" /\ timer'[i] # timer[i])
                => race'[i] = Rejected("timeout")
          /\ (race[i].st = "pending" /\ call'[i] # call[i])
                => race'[i].st \in {"fulfilled", "rejected"} /\ race'[i].reason # "timeout"
          /\ ( /\ race[i].st \in {"fulfilled", "rejected"}
               /\ \/ (call'[i] = "settled" /\ call[i] = "pending")
                  \/ (timer'[i] = "fired" /\ timer[i] = "armed") )
                => UNCHANGED <<race, vmVars, liveOccupancyFromSocket>> ]_vars

\* the timer won the race of one query and its response came later; the response
\* won the race of another and its timer fired later
C9_Witness ==
    \E i, j \in QueryIdx :
        /\ race[i] = Rejected("timeout")
        /\ call[i] = "settled"
        /\ race[j].st = "fulfilled"
        /\ timer[j] = "fired"
        /\ ~awaiting
        /\ failedCalls = <<ApiCalls[i]>>

\* C10: a completed batch shows the connection-error view exactly when all four
\* queries failed; when some failed and some succeeded, failedCalls holds exactly
\* the failed names and the metric of every successful query is populated.
C10_BatchClassification ==
    [][ BatchCompletes =>
        LET failed == {i \in QueryIdx : race'[i].st = "rejected"}
        IN  /\ (View(error') = "connectionError") <=> (failed = QueryIdx)
            /\ (failed # {} /\ failed # QueryIdx) =>
                  /\ {failedCalls'[n] : n \in 1..Len(failedCalls')}
                        = {ApiCalls[i] : i \in failed}
                  /\ 1 \notin failed => avgDwellTime' = race'[1].value.avgDwellMinutes
                  /\ 2 \notin failed => todayFootfall' = race'[2].value.footfall
                  /\ 4 \notin failed => demographicsData' = race'[4].value ]_vars

-----------------------------------------------------------------------------
(* Claims about the retry policy *)

Retryable(e) == ~(e.kind = "response" /\ e.status \in {401, 404})

C5_AtMostTwoInvocations ==
    maxRetries = 1 =>
        /\ calls <= 2
        /\ Len(failures) <= 2
        /\ (Len(failures) >= 1 /\ Retryable(failures[1])) =>
              \/ rpc = "backoff" /\ calls = 1
              \/ rpc # "backoff" /\ calls = 2
        /\ Len(failures) = 2 => (rpc = "thrown" /\ calls = 2)

C5_Witness ==
    /\ maxRetries = 1
    /\ calls = 2
    /\ rpc = "thrown"
    /\ Len(failures) = 2
    /\ Retryable(failures[2])

\* C6: the wait programmed after a retryable failure of the attempt with index i
\* is baseDelay * 2^i, and no attempt after the first starts earlier than that
\* after the failure before it; with makeRequest's arguments attempt 2 starts no
\* earlier than 1000 ms after attempt 1 failed.
C6_ExponentialBackoff ==
    /\ rpc = "backoff" => delayLeft + sinceFailure = 1000 * 2^attempt
    /\ \A k \in 1..Len(gaps) : gaps[k] >= 1000 * 2^(k - 1)
    /\ (maxRetries = 1 /\ calls = 2) => (Len(gaps) = 1 /\ gaps[1] >= 1000)

C6_Witness ==
    /\ Len(gaps) = 3
    /\ gaps[2] = 2000
    /\ gaps[3] = 4000
    /\ rpc = "attempt"

\* C7: when every attempt of a run has failed retryably, what the policy throws
\* is the failure of the last attempt, makeRequest rejects with the Error made
\* from that failure, and the query's outcome in the batch is a rejection.
C7_LastFailurePropagated ==
    (/\ rpc = "thrown"
     /\ \A k \in 1..Len(failures) : Retryable(failures[k])) =>
        /\ Len(failures) = maxRetries + 1
        /\ lastError = failures[Len(failures)]
        /\ thrown = MakeRequestError(failures[Len(failures)])
        /\ settled.st = "rejected"

C7_Witness ==
    /\ rpc = "thrown"
    /\ failures = <<Failure("response", 500), Failure("ERR_NETWORK", 0)>>
    /\ thrown.message = "Cannot connect to API server"
    /\ settled = Rejected("error")

-----------------------------------------------------------------------------
(* Claims about the metrics of a completed batch *)

\* C11: when a batch completes, the metric of every query that failed in it is
\* null (also when an earlier batch had populated it) and the metric of every
\* query that succeeded holds the value the query returned.
C11_FailedMetricIsNull ==
    [][ BatchCompletes =>
          /\ race'[1].st = "rejected" => avgDwellTime' = Null
          /\ race'[2].st = "rejected" => todayFootfall' = Null
          /\ race'[1].st = "fulfilled" => avgDwellTime' = race'[1].value.avgDwellMinutes
          /\ race'[2].st = "fulfilled" => todayFootfall' = race'[2].value.footfall ]_vars

\* C12: failedCalls holds only names of queries whose race was rejected in the
\* batch started last; it is empty from the start of a batch to its completion,
\* and no batch is started while another is awaited, so no earlier batch settles
\* after a later one has started.
C12_FailedCallsOfLatestBatch ==
    /\ [](/\ \A n \in 1..Len(failedCalls) :
                \E i \in QueryIdx : ApiCalls[i] = failedCalls[n] /\ race[i].st = "rejected"
          /\ awaiting => failedCalls = <<>>)
    /\ [][ nBatches' # nBatches => (~awaiting /\ failedCalls' = <<>>) ]_vars

C12_Witness ==
    /\ nBatches = 2
    /\ ~awaiting
    /\ failedCalls = <<"Occupancy">>
    /\ race[1].st = "fulfilled"

-----------------------------------------------------------------------------
(* Claims about the alert list and the teardown of the component *)

\* C13: the alert list never holds more than 100 events and is ordered newest
\* first; every push puts the new event first, keeps the events already held in
\* their order and drops the oldest once 100 are held, so the list is always the
\* most recently pushed events (after 150 pushes, the last 100).
C13_AlertsBounded ==
    /\ [](/\ Len(allAlerts) <= 100
          /\ \A k \in 1..Len(allAlerts) : allAlerts[k].id = nAlerts - k + 1)
    /\ [][ allAlerts' # allAlerts =>
             /\ allAlerts'[1].id = nAlerts'
             /\ Len(allAlerts') = IF Len(allAlerts) < 100 THEN Len(allAlerts) + 1 ELSE 100
             /\ \A k \in 2..Len(allAlerts') : allAlerts'[k] = allAlerts[k - 1] ]_vars

C13_Witness ==
    /\ nAlerts = 150
    /\ Len(allAlerts) = 100
    /\ allAlerts[1].id = 150
    /\ allAlerts[100].id = 51

\* C14: an alert event is put on the list exactly when the panel flag is set at
\* its arrival; an event that arrives while the flag is clear is dropped and no
\* later step adds it; opening or closing the panel leaves the list as it is.
C14_AlertsOnlyWhileArmed ==
    [][ /\ allAlerts' # allAlerts =>
             /\ showAlertsPanelRef
             /\ nAlerts' = nAlerts + 1
             /\ allAlerts' = <<[kind |-> "object", id |-> nAlerts']>> \o allAlerts
        /\ (nAlerts' = nAlerts + 1 /\ ~showAlertsPanelRef) => allAlerts' = allAlerts
        /\ (nAlerts' = nAlerts + 1 /\ showAlertsPanelRef /\ phase = "active"
              /\ socketService.socket = "connected") =>
             allAlerts' # allAlerts
        /\ showAlertsPanelRef' # showAlertsPanelRef => allAlerts' = allAlerts ]_vars

C14_Witness ==
    /\ showAlertsPanelRef
    /\ nAlerts = 3
    /\ allAlerts = <<AlertEvent(3), AlertEvent(1)>>

C16_StreamsReleasedOnUnmount ==
    /\ [](phase = "unmounted" =>
            /\ socketService = NoSocket
            /\ lateCalls \cap {"onLiveOccupancy", "onAlert"} = {})
    /\ [][ phase = "unmounted" =>
             UNCHANGED <<liveOccupancy, liveOccupancyFromSocket, allAlerts>> ]_vars

C16_Witness ==
    /\ phase = "unmounted"
    /\ showAlertsPanelRef
    /\ nAlerts = 5
    /\ allAlerts = <<AlertEvent(1)>>
    /\ liveOccupancy = Null

-----------------------------------------------------------------------------
(* Claims about the session *)

\* C17: the step in which an attempt of an analytics query is answered with 401
\* removes the stored token and site id and sets the location to the login
\* page, whether the query's race is still pending or the 30 s timer has
\* already rejected it.
C17_UnauthorizedLogsOutAtOnce ==
    [][ (/\ Len(failures') = Len(failures) + 1
         /\ failures'[Len(failures')] = [kind |-> "response", status |-> 401]) =>
            /\ token' = "null"
            /\ siteId' = ""
            /\ location' = "/login" ]_vars

C17_Witness ==
    /\ failures = <<Failure("response", 500), Failure("response", 401)>>
    /\ hardTimer = "fired"
    /\ settled = Rejected("timeout")
    /\ token = "null"
    /\ location = "/login"

\* C18: whenever an authenticated request of the application has been answered
\* with 401, the stored token and site id are removed and the location is the
\* login page.
C18_AnyUnauthorizedLogsOut ==
    (\E r \in DOMAIN requests :
        requests[r].st = "failed" /\ requests[r].error.status = 401) =>
        /\ token = "null"
        /\ siteId = ""
        /\ location = "/login"

-----------------------------------------------------------------------------
(* Claims about the live-occupancy handler *)

\* C20: a payload the handler receives changes liveOccupancy only to a finite
\* number >= 0 that one of the payload's candidates coerces to; a payload none
\* of whose candidates coerces to a finite number >= 0 leaves liveOccupancy and
\* liveOccupancyFromSocket as they were.
C20_SampleOnlyFromFiniteCandidate ==
    [][ (payload # NoPayload /\ payload' = NoPayload /\ phase = "active") =>
          LET Coerced(f) == IF f.k = "string" THEN ParseFloat(f.s) ELSE f
              Finite(v) == v.k = "number" /\ v.n >= 0
              candidates == IF payload.kind = "object"
                               THEN {Coerced(payload.occupancy), Coerced(payload.count),
                                     Coerced(payload.current), Coerced(payload.value)}
                            ELSE IF payload.kind = "number" THEN {payload.num}
                            ELSE {}
          IN  IF \E v \in candidates : Finite(v)
                 THEN /\ liveOccupancy' \in {v \in candidates : Finite(v)}
                      /\ liveOccupancyFromSocket' = liveOccupancy'
                 ELSE UNCHANGED <<liveOccupancy, liveOccupancyFromSocket>> ]_vars

-----------------------------------------------------------------------------
(* Claims about applying a batch twice *)

\* C19: when a batch completes and a metric already holds the value that was
\* made from the payload its query has now returned again, the metric is left
\* equal: avgDwellTime, todayFootfall, the occupancy series and the demographics
\* are replaced by the batch, never accumulated or appended to.
C19_SameOutcomeTwice ==
    [][ BatchCompletes =>
          LET SeriesOf(resp) ==
                  /\ Len(occupancyData) = Len(resp.buckets)
                  /\ \A b \in 1..Len(resp.buckets) :
                        /\ occupancyData[b].occupancy = resp.buckets[b].avg
                        /\ occupancyData[b].timestamp.iso = resp.buckets[b].utc.n
          IN  /\ (race'[1].st = "fulfilled"
                    /\ avgDwellTime = race'[1].value.avgDwellMinutes) =>
                      avgDwellTime' = avgDwellTime
              /\ (race'[2].st = "fulfilled" /\ todayFootfall = race'[2].value.footfall) =>
                      todayFootfall' = todayFootfall
              /\ (race'[3].st = "fulfilled" /\ SeriesOf(race'[3].value)) =>
                      occupancyData' = occupancyData
              /\ (race'[4].st = "fulfilled" /\ demographicsData = race'[4].value) =>
                      demographicsData' = demographicsData ]_vars

C19_Witness ==
    /\ nBatches = 2
    /\ ~awaiting
    /\ failedCalls = <<"Footfall">>
    /\ todayFootfall = Null
    /\ avgDwellTime = Num(5)
    /\ Len(occupancyData) = 2
    /\ demographicsData # NullResponse

\* C21: the sample taken from an object payload is the first of its fields
\* occupancy, count, current, value, in this order, that reads as a finite number
\* >= 0 (a string is read by parseFloat); a later field is used only when every
\* earlier one is absent or does not read as such a number; a bare number >= 0 is
\* its own sample; with no such candidate the payload leaves liveOccupancy as it
\* was.
C21_FirstValidCandidateWins ==
    [][ (payload.kind \in {"object", "number"} /\ payload'.kind = "handled"
            /\ phase = "active") =>
          LET Coerced(f) == IF f.k = "string" THEN ParseFloat(f.s) ELSE f
              Valid(f) == Coerced(f).k = "number" /\ Coerced(f).n >= 0
              fields == <<payload.occupancy, payload.count, payload.current, payload.value>>
              first == IF payload.kind = "number"
                          THEN IF Valid(payload.num) THEN 5 ELSE 0
                       ELSE IF \E k \in 1..4 : Valid(fields[k])
                          THEN CHOOSE k \in 1..4 :
                                  Valid(fields[k]) /\ \A j \in 1..(k - 1) : ~Valid(fields[j])
                       ELSE 0
          IN  /\ first \in 1..4 =>
                    /\ liveOccupancy' = Coerced(fields[first])
                    /\ liveOccupancyFromSocket' = Coerced(fields[first])
              /\ first = 5 =>
                    /\ liveOccupancy' = payload.num
                    /\ liveOccupancyFromSocket' = payload.num
              /\ first = 0 => UNCHANGED <<liveOccupancy, liveOccupancyFromSocket>> ]_vars

-----------------------------------------------------------------------------
(* Claims about the extraction of the metrics from a response body *)

\* C22: when a batch completes with the dwell (footfall) query fulfilled, the
\* metric is the body's avgDwellMinutes (footfall) if that is a finite number
\* >= 0 and null otherwise (missing, not a number, NaN, infinite, negative); the
\* query is not listed in failedCalls and the metric sets no error.
C22_InvalidMetricIsNull ==
    [][ BatchCompletes =>
          LET Finite(v) == v.k = "number" /\ v.n >= 0
              dwell == race'[1].value.avgDwellMinutes
              footfall == race'[2].value.footfall
          IN  /\ race'[1].st = "fulfilled" =>
                    /\ avgDwellTime' = IF Finite(dwell) THEN dwell ELSE Null
                    /\ \A n \in 1..Len(failedCalls') : failedCalls'[n] # "Dwell Time"
                    /\ error' = NoError
              /\ race'[2].st = "fulfilled" =>
                    /\ todayFootfall' = IF Finite(footfall) THEN footfall ELSE Null
                    /\ \A n \in 1..Len(failedCalls') : failedCalls'[n] # "Footfall"
                    /\ error' = NoError ]_vars

\* C23: the occupancy value a completed batch derives from a fulfilled
\* occupancy query is the body's current if that is a number >= 0, otherwise the
\* avg of the last bucket if there is one and it is a number >= 0, otherwise
\* null; no other field decides it. The value shows as liveOccupancy, or as the
\* value of the grace timer when it is 0.
C23_DerivedFromCurrentOrLastBucket ==
    [][ (BatchCompletes /\ race'[3].st = "fulfilled") =>
          LET resp == race'[3].value
              Valid(v) == v.k = "number" /\ v.n >= 0
              last == resp.buckets[Len(resp.buckets)]
              expected == IF Valid(resp.current) THEN resp.current
                          ELSE IF resp.hasBuckets /\ Len(resp.buckets) > 0 /\ Valid(last.avg)
                              THEN last.avg
                          ELSE Null
          IN  /\ expected \notin {Null, Num(0)} =>
                    liveOccupancy' = expected /\ graceTimers' = graceTimers
              /\ expected = Num(0) =>
                    /\ Len(graceTimers') = Len(graceTimers) + 1
                    /\ graceTimers'[Len(graceTimers')].value = Num(0)
                    /\ liveOccupancy' = liveOccupancy
              /\ expected = Null =>
                    liveOccupancy' \in {liveOccupancy, Null} /\ graceTimers' = graceTimers ]_vars

\* C24: once a batch has completed with the demographics query fulfilled, every
\* bucket of the body is in what the chart renders: the time series has one
\* point per bucket, in order, whose male and female are the bucket's counts,
\* with 0 in place of a count that is not a number.
C24_EveryBucketShownWithValidCounts ==
    (completedBy # 0 /\ race[4].st = "fulfilled" /\ race[4].value.hasBuckets
        /\ Len(race[4].value.buckets) > 0) =>
        LET bs == race[4].value.buckets
            chart == DemographicsChart(demographicsData)
            Count(v) == IF v.k = "number" THEN v ELSE Num(0)
        IN  /\ chart.view = "charts"
            /\ Len(chart.timeseriesData) = Len(bs)
            /\ \A b \in 1..Len(bs) :
                  /\ chart.timeseriesData[b].male = Count(bs[b].male)
                  /\ chart.timeseriesData[b].female = Count(bs[b].female)

-----------------------------------------------------------------------------
(* Claims about the site names of the alerts panel *)

\* C25 as stated: in every state, also while the directory request is pending
\* or after it failed, an alert without site name whose site id is not in the
\* cache is rendered with the site name "Unknown Site".
C25_CacheMissIsUnknownSite ==
    \A alert \in AlertSites :
        LET id == IF alert.id # "" THEN alert.id ELSE alert.siteId
        IN  (alert.name = "" /\ id \notin DOMAIN sitesCache) =>
                GetSiteName(alert) = "Unknown Site"

\* C25: in every state, also while the directory request is pending or after
\* it failed, an alert without site name whose site id is not in the cache is
\* rendered with the cached name of the stored site id if the cache has one,
\* and with "Unknown Site" otherwise; the name never depends on the request.
C25_CacheMissIsStoredSiteOrUnknown ==
    \A alert \in AlertSites :
        LET id == IF alert.id # "" THEN alert.id ELSE alert.siteId
        IN  (alert.name = "" /\ id \notin DOMAIN sitesCache) =>
                GetSiteName(alert) = IF siteId \in DOMAIN sitesCache
                                        THEN sitesCache[siteId]
                                        ELSE "Unknown Site"

C25_Witness ==
    /\ showAlertsPanel
    /\ allAlerts # <<>>
    /\ requests["Sites"].st = "ok"
    /\ DOMAIN sitesCache = {"site-1"}
    /\ siteId = "site-1"
    /\ GetSiteName([name |-> "", id |-> "site-9", siteId |-> ""]) = "Main Hall"
    /\ GetSiteName([name |-> "", id |-> "site-1", siteId |-> ""]) = "Main Hall"

-----------------------------------------------------------------------------
(* Claims about the moment a batch is applied *)

\* C26 as stated: the step in which the dwell (footfall) query of a batch is
\* fulfilled sets the metric to the value it returned, whether or not the other
\* queries of the batch have settled.
C26_AppliedWhenQuerySettles ==
    [][ /\ (race[1].st = "pending" /\ race'[1].st = "fulfilled") =>
              avgDwellTime' = race'[1].value.avgDwellMinutes
        /\ (race[2].st = "pending" /\ race'[2].st = "fulfilled") =>
              todayFootfall' = race'[2].value.footfall ]_vars

\* C26: the results of a batch are applied together, in the one step in which
\* the last of its four queries settles: as long as a query of the batch is
\* pending the metrics, the occupancy series and the demographics keep their
\* values, and that step sets the metric of every fulfilled query to the value
\* it returned, or to null.
C26_AppliedWhenBatchSettles ==
    [][ /\ (\E i \in QueryIdx : race'[i].st = "pending") =>
              UNCHANGED <<avgDwellTime, todayFootfall, occupancyData, demographicsData>>
        /\ BatchCompletes =>
              /\ \A i \in QueryIdx : race'[i].st # "pending"
              /\ race'[1].st = "fulfilled" =>
                    avgDwellTime' \in {race'[1].value.avgDwellMinutes, Null}
              /\ race'[2].st = "fulfilled" =>
                    todayFootfall' \in {race'[2].value.footfall, Null} ]_vars

C26_Witness ==
    /\ nBatches = 1
    /\ awaiting
    /\ race[1].st = "fulfilled"
    /\ race[2].st = "fulfilled"
    /\ race[4].st = "pending"
    /\ avgDwellTime = Null
    /\ todayFootfall = Null

\* C27: a batch that completes with the occupancy query fulfilled by a body
\* without scalar field and without buckets, after a live sample has set
\* liveOccupancy, leaves liveOccupancy at the live value.
C27_NoValueKeepsLiveSample ==
    [][ (/\ BatchCompletes
         /\ race'[3].st = "fulfilled"
         /\ race'[3].value.current = Undefined
         /\ race'[3].value.occupancy = Undefined
         /\ race'[3].value.buckets = <<>>
         /\ liveOccupancyFromSocket # Null
         /\ liveOccupancy = liveOccupancyFromSocket) =>
            liveOccupancy' = liveOccupancy ]_vars

\* C28: a batch that awaits its queries eventually completes with loading
\* false, also when no query is ever answered; a batch all of whose queries
\* were rejected by their timers completes as a total failure, with the four
\* queries listed in failedCalls; whenever no batch is awaited after the first
\* was started, loading is false.
C28_BatchEventuallyCompletes ==
    /\ awaiting ~> (~awaiting /\ loading = FALSE)
    /\ []((nBatches > 0 /\ ~awaiting) => loading = FALSE)
    /\ [][ (BatchCompletes /\ \A i \in QueryIdx : race'[i].reason = "timeout") =>
              /\ error' = "All API calls failed"
              /\ failedCalls' = <<"Dwell Time", "Footfall", "Occupancy", "Demographics">>
              /\ loading' = FALSE ]_vars

C28_Witness ==
    /\ nBatches = 1
    /\ ~awaiting
    /\ \A i \in QueryIdx : call[i] = "pending" /\ race[i] = Rejected("timeout")
    /\ error = ErrAllFailed
    /\ Len(failedCalls) = 4
    /\ loading = FALSE

-----------------------------------------------------------------------------
(* Claims about the timer of a retried query *)

\* C29: one timer, started with the batch, covers all attempts of a query: the
\* query's outcome becomes a response only in a step taken while the timer has
\* not fired, and once the timer has fired the outcome is decided; when the
\* first attempt fails by the 30 s timeout of the transport the retry is
\* scheduled, and by the time the second attempt is issued the timer has
\* rejected the query, so the outcome is never the second attempt's response.
C29_OneTimerForAllAttempts ==
    /\ [](/\ hardTimer = "fired" => settled.st # "pending"
          /\ (failures # <<>> /\ failures[1] = [kind |-> "ECONNABORTED", status |-> 0]) =>
                /\ settled.st # "fulfilled"
                /\ calls >= 2 => (hardTimer = "fired" /\ settled = Rejected("timeout")))
    /\ [][ /\ (settled.st = "pending" /\ settled'.st = "fulfilled") => hardTimer = "armed"
           /\ (failures = <<>> /\ failures' = <<[kind |-> "ECONNABORTED", status |-> 0]>>) =>
                 rpc' = "backoff" ]_vars

C29_Witness ==
    /\ failures = <<TimeoutFailure>>
    /\ calls = 2
    /\ rpc = "returned"
    /\ hardTimer = "fired"
    /\ settled = Rejected("timeout")

-----------------------------------------------------------------------------
(* SocketService called in any order *)

\* sockets open at once
MaxSockets == 3

\* subscriptions to one event at once
MaxHandlers == 2

\* alert events the server emits while the service is called in any order
MaxSocketAlerts == 2

\* the handlers a caller subscribes
Handlers == {DashboardHandler, "Other"}

\* what a call of the service leaves alone
serviceFrame == <<phase, loading, error, failedCalls, liveOccupancy,
                  liveOccupancyFromSocket, todayFootfall, avgDwellTime, occupancyData,
                  demographicsData, call, race, timer, awaiting, graceTimers,
                  completedBy, nBatches, lateCalls, siteId, retryVars, streamVars,
                  sessionVars>>

\* a call of connect()
ConnectCall ==
    /\ OpenSockets(socketService) < MaxSockets
    /\ socketService' = Connect(socketService, token)
    /\ UNCHANGED serviceFrame

\* the server accepts the handshake of this.socket
SocketConnects ==
    /\ socketService.socket = "connecting"
    /\ socketService' = Connected(socketService)
    /\ UNCHANGED serviceFrame

\* the server accepts the handshake of a socket this.socket no longer refers to
OtherSocketConnects ==
    /\ \E k \in DOMAIN socketService.others :
          /\ socketService.others[k] = "connecting"
          /\ socketService' = OtherConnected(socketService, k)
    /\ UNCHANGED serviceFrame

\* a call of disconnect()
DisconnectCall ==
    /\ socketService' = Disconnect(socketService)
    /\ UNCHANGED serviceFrame

\* a call of onAlert(handler)
OnAlertCall(handler) ==
    /\ Len(socketService.alertHandlers) < MaxHandlers
    /\ socketService' = [socketService EXCEPT !.alertHandlers = Append(@, handler)]
    /\ UNCHANGED serviceFrame

\* a call of onLiveOccupancy(handler)
OnLiveOccupancyCall(handler) ==
    /\ Len(socketService.occupancyHandlers) < MaxHandlers
    /\ socketService' = [socketService EXCEPT !.occupancyHandlers = Append(@, handler)]
    /\ UNCHANGED serviceFrame

\* a call of the function onAlert(handler) returned
UnsubscribeAlert(handler) ==
    /\ \E n \in DOMAIN socketService.alertHandlers :
          socketService.alertHandlers[n] = handler
    /\ socketService' = [socketService EXCEPT !.alertHandlers = Without(@, handler)]
    /\ UNCHANGED serviceFrame

\* a call of the function onLiveOccupancy(handler) returned
UnsubscribeOccupancy(handler) ==
    /\ \E n \in DOMAIN socketService.occupancyHandlers :
          socketService.occupancyHandlers[n] = handler
    /\ socketService' = [socketService EXCEPT !.occupancyHandlers = Without(@, handler)]
    /\ UNCHANGED serviceFrame

\* the dashboard mounted with its panel opened, the service called in any order
\* and the server emitting alerts
NextSocket ==
    \/ MountEffects /\ UNCHANGED <<retryVars, streamVars, sessionVars>>
    \/ OpenAlertsPanel /\ FetchSitesEffect /\ UNCHANGED retryVars
    \/ ConnectCall
    \/ SocketConnects
    \/ OtherSocketConnects
    \/ DisconnectCall
    \/ \E handler \in Handlers : OnAlertCall(handler)
    \/ \E handler \in Handlers : OnLiveOccupancyCall(handler)
    \/ \E handler \in Handlers : UnsubscribeAlert(handler)
    \/ \E handler \in Handlers : UnsubscribeOccupancy(handler)
    \/ (\E event \in {AlertEvent(nAlerts + 1)} :
            nAlerts < MaxSocketAlerts /\ OnAlert(event))
          /\ UNCHANGED <<retryVars, sessionVars>>

SpecSocket == Init /\ [][NextSocket]_vars

-----------------------------------------------------------------------------
(* Claims about the connections of the live channel *)

\* C30: whatever the order of the connect, disconnect and subscribe calls, at
\* most one socket with the service's listeners is open at a time, at most one
\* of them is connected, and so a server event calls a handler that is subscribed
\* once no more than once.
C30_OneConnectionDeliversOnce ==
    /\ OpenSockets(socketService) <= 1
    /\ ConnectedSockets(socketService) <= 1
    /\ \A h \in Handlers :
          Cardinality({n \in DOMAIN socketService.alertHandlers :
                          socketService.alertHandlers[n] = h}) = 1 =>
             Calls(socketService, socketService.alertHandlers, h) <= 1

=============================================================================
